---------------------------- MODULE Spec2Model ----------------------------
(***************************************************************************)
(* A model of src/Library.mjs: the form-field validators, the display      *)
(* formatters and the error-message helpers.                               *)
(*                                                                         *)
(* A JavaScript string is a sequence of UTF-16 code units, each a string:  *)
(* the character itself, or, for a code unit that a string of TLA+ cannot  *)
(* hold, its name ("U+2028").  A JavaScript value is a record: `type` is   *)
(* the value's type ("throw" for a raised exception), `str` the characters *)
(* of a computed string, `lit` the text of a string literal of the source  *)
(* that is returned whole (an error message), `bool` a boolean.            *)
(***************************************************************************)
EXTENDS Integers, Sequences, FiniteSets, TLC

VARIABLES fn, arg, ret, children, shown, moved

vars == <<fn, arg, ret, children, shown, moved>>

-----------------------------------------------------------------------------
(* JavaScript values *)

Undefined == [type |-> "undefined", str |-> <<>>, lit |-> "", bool |-> FALSE]

Null == [type |-> "null", str |-> <<>>, lit |-> "", bool |-> FALSE]

Str(s) == [type |-> "string", str |-> s, lit |-> "", bool |-> FALSE]

Literal(m) == [type |-> "string", str |-> <<>>, lit |-> m, bool |-> FALSE]

Bool(b) == [type |-> "boolean", str |-> <<>>, lit |-> "", bool |-> b]

TypeError == [type |-> "throw", str |-> <<>>, lit |-> "TypeError", bool |-> FALSE]

\* the empty string '' that the validators return for a valid input
EmptyString == Str(<<>>)

IsString(v) == v.type = "string"

\* String(v), as RegExp.prototype.test applies it to its argument
StringOf(v) ==
  IF v.type = "undefined" THEN <<"u", "n", "d", "e", "f", "i", "n", "e", "d">>
  ELSE IF v.type = "null" THEN <<"n", "u", "l", "l">>
  ELSE v.str

\* !v for undefined, null and strings
IsFalsy(v) == v.type \in {"undefined", "null"} \/ (IsString(v) /\ v = EmptyString)

-----------------------------------------------------------------------------
(* Character classes of the regular expressions (no u, i, s or m flag) *)

\* \d
Digit == {"0", "1", "2", "3", "4", "5", "6", "7", "8", "9"}

LowerSeq == <<"a", "b", "c", "d", "e", "f", "g", "h", "i", "j", "k", "l", "m",
              "n", "o", "p", "q", "r", "s", "t", "u", "v", "w", "x", "y", "z">>

UpperSeq == <<"A", "B", "C", "D", "E", "F", "G", "H", "I", "J", "K", "L", "M",
              "N", "O", "P", "Q", "R", "S", "T", "U", "V", "W", "X", "Y", "Z">>

\* [a-z]
Lower == {LowerSeq[i] : i \in DOMAIN LowerSeq}

\* [A-Z]
Upper == {UpperSeq[i] : i \in DOMAIN UpperSeq}

\* [a-zA-Z0-9]
AlphaNumeric == Lower \cup Upper \cup Digit

\* \w
WordChar == AlphaNumeric \cup {"_"}

\* U+000B LINE TABULATION
VT == ""

\* U+00A0 NO-BREAK SPACE
NBSP == " "

\* U+1680 OGHAM SPACE MARK
OghamSpace == " "

\* U+FEFF ZERO WIDTH NO-BREAK SPACE
ZWNBSP == "﻿"

\* U+2028 LINE SEPARATOR
LS == "U+2028"

\* U+2029 PARAGRAPH SEPARATOR
PS == "U+2029"

\* U+2000 to U+200A, U+202F, U+205F, U+3000: the other space separators
SpaceSeparator ==
  {"U+2000", "U+2001", "U+2002", "U+2003", "U+2004", "U+2005", "U+2006",
   "U+2007", "U+2008", "U+2009", "U+200A", "U+202F", "U+205F", "U+3000"}

\* what . does not match: LF, CR, U+2028, U+2029
LineTerminator == {"\n", "\r", LS, PS}

\* \s: the white space TAB, VT, FF, U+FEFF and the space separators (space,
\* U+00A0, U+1680 among them), and the line terminators
WhiteSpace ==
  {"\t", VT, "\f", ZWNBSP, " ", NBSP, OghamSpace}
    \cup SpaceSeparator \cup LineTerminator

\* char.toUpperCase() on a character that \w matches
toUpperCase(c) ==
  IF c \in Lower THEN UpperSeq[CHOOSE i \in DOMAIN LowerSeq : LowerSeq[i] = c]
  ELSE c

-----------------------------------------------------------------------------
(* Sequence helpers *)

RECURSIVE Flatten(_)
\* the concatenation of a sequence of strings
Flatten(ss) == IF ss = <<>> THEN <<>> ELSE Head(ss) \o Flatten(Tail(ss))

\* n copies of the character c
Repeat(c, n) == [i \in 1..n |-> c]

\* all strings over the characters cs of length at most n
StringsUpTo(cs, n) == UNION {[1..k -> cs] : k \in 0..n}

\* t occurs in s as a substring
Includes(s, t) ==
  \E i \in 1..(Len(s) - Len(t) + 1) : SubSeq(s, i, i + Len(t) - 1) = t

\* the positions of the character c in s
IndicesOf(s, c) == {i \in DOMAIN s : s[i] = c}

Min(S) == CHOOSE x \in S : \A y \in S : x <= y

Max(S) == CHOOSE x \in S : \A y \in S : x >= y

-----------------------------------------------------------------------------
(* checkPasswordStrength *)

\* (password.match(/[^a-zA-Z0-9]/g) || []).length
specialCharCount(password) ==
  Cardinality({i \in DOMAIN password : password[i] \notin AlphaNumeric})

\* the alternatives of sequentialPattern, in the order of the source
sequentialPattern ==
  << <<"0","1","2">>, <<"1","2","3">>, <<"2","3","4">>, <<"3","4","5">>,
     <<"4","5","6">>, <<"5","6","7">>, <<"6","7","8">>, <<"7","8","9">>,
     <<"8","9","0">>,
     <<"a","b","c">>, <<"b","c","d">>, <<"c","d","e">>, <<"d","e","f">>,
     <<"e","f","g">>, <<"f","g","h">>, <<"g","h","i">>, <<"h","i","j">>,
     <<"i","j","k">>, <<"j","k","l">>, <<"k","l","m">>, <<"l","m","n">>,
     <<"m","n","o">>, <<"n","o","p">>, <<"o","p","q">>, <<"p","q","r">>,
     <<"q","r","s">>, <<"r","s","t">>, <<"s","t","u">>, <<"t","u","v">>,
     <<"u","v","w">>, <<"w","x","y">>, <<"x","y","z">>,
     <<"1","2","3","4">>, <<"2","3","4","5">>, <<"3","4","5","6">>,
     <<"4","5","6","7">>, <<"5","6","7","8">>, <<"6","7","8","9">>,
     <<"7","8","9","0">> >>

\* sequentialPattern.test(password)
hasSequential(password) ==
  \E k \in DOMAIN sequentialPattern : Includes(password, sequentialPattern[k])

\* /(.)\1{2,}/.test(password): a character . matches, then itself twice more
hasRepeating(password) ==
  \E i \in 1..(Len(password) - 2) :
    /\ password[i] \notin LineTerminator
    /\ password[i + 1] = password[i]
    /\ password[i + 2] = password[i]

\* /(?=.*C)/.test(password) for a character class C: from some position, a
\* run of characters that . matches and then a character of C
lookaheadHas(password, class) ==
  \E k \in 0..Len(password) :
    \E j \in (k + 1)..Len(password) :
      /\ password[j] \in class
      /\ \A i \in (k + 1)..(j - 1) : password[i] \notin LineTerminator

MinPasswordLength == 6

MaxPasswordLength == 20

\* /^.{6,20}$/.test(password)
lengthInRange(password) ==
  /\ Len(password) >= MinPasswordLength
  /\ Len(password) <= MaxPasswordLength
  /\ \A i \in DOMAIN password : password[i] \notin LineTerminator

MsgSpecial == "Password must include at least two special characters."

MsgSequential == "Password must not contain sequential characters or letters."

MsgRepeating ==
  "Password must not contain more than two repeating characters or numbers in a row."

MsgDigit == "Password must include at least one digit."

MsgLower == "Password must include at least one lowercase letter."

MsgUpper == "Password must include at least one uppercase letter."

MsgLength == "Password must be between 6 and 20 characters long."

\* password.match on undefined or null raises a TypeError
checkPasswordStrength(password) ==
  IF ~IsString(password) THEN TypeError
  ELSE IF specialCharCount(password.str) < 2 THEN Literal(MsgSpecial)
  ELSE IF hasSequential(password.str) THEN Literal(MsgSequential)
  ELSE IF hasRepeating(password.str) THEN Literal(MsgRepeating)
  ELSE IF ~lookaheadHas(password.str, Digit) THEN Literal(MsgDigit)
  ELSE IF ~lookaheadHas(password.str, Lower) THEN Literal(MsgLower)
  ELSE IF ~lookaheadHas(password.str, Upper) THEN Literal(MsgUpper)
  ELSE IF ~lengthInRange(password.str) THEN Literal(MsgLength)
  ELSE EmptyString

-----------------------------------------------------------------------------
(* validateEmail *)

\* [^\s@]
EmailChar(c) == c \notin WhiteSpace /\ c # "@"

\* [^\s@]+ matches s[from..to] whole
EmailRun(s, from, to) == from <= to /\ \A i \in from..to : EmailChar(s[i])

\* [^\s@]+\.[^\s@]+$ matches s from position `from` to the end
DomainShape(s, from) ==
  \E d \in (from + 1)..(Len(s) - 1) :
    /\ s[d] = "."
    /\ EmailRun(s, from, d - 1)
    /\ EmailRun(s, d + 1, Len(s))

\* formatRe without its ^ and $ anchors: the shape anywhere in the string
formatRe_Unanchored(email) ==
  \E a \in DOMAIN email :
    /\ email[a] = "@"
    /\ a > 1 /\ EmailChar(email[a - 1])
    /\ \E d \in (a + 2)..(Len(email) - 1) :
         /\ email[d] = "."
         /\ EmailRun(email, a + 1, d - 1)
         /\ EmailChar(email[d + 1])

\* /^[^\s@]+@[^\s@]+\.[^\s@]+$/.test(email)
formatRe(email) ==
  \E a \in DOMAIN email :
    /\ email[a] = "@"
    /\ EmailRun(email, 1, a - 1)
    /\ DomainShape(email, a + 1)

\* email.match(/@([^\s@]+\.[^\s@]+)$/): null, or the match whose group 1 is
\* what follows the leftmost '@' from which the pattern matches
domainMatch(email) ==
  LET ats == {a \in IndicesOf(email, "@") : DomainShape(email, a + 1)}
  IN  IF ats = {} THEN [found |-> FALSE, group |-> <<>>]
      ELSE [found |-> TRUE, group |-> SubSeq(email, Min(ats) + 1, Len(email))]

RECURSIVE Split(_, _)
\* s.split(sep) for a one-character separator
Split(s, sep) ==
  IF IndicesOf(s, sep) = {} THEN <<s>>
  ELSE LET i == Min(IndicesOf(s, sep))
       IN  <<SubSeq(s, 1, i - 1)>> \o Split(SubSeq(s, i + 1, Len(s)), sep)

MaxLocalLength == 64

\* the limit taken as exclusive: a local part of 64 characters is too long
localPartTooLong_Inclusive(email) ==
  Len(Split(email, "@")[1]) >= MaxLocalLength

\* email.split('@')[0].length > 64
localPartTooLong(email) == Len(Split(email, "@")[1]) > MaxLocalLength

MsgEmailEmpty == "Email address cannot be empty."

MsgEmailFormat ==
  "Invalid email address format. Must be in format name@example.com"

MsgEmailDomain ==
  "Invalid domain in email address. Must include a valid domain."

MsgEmailLocal ==
  "Local part of the email address is too long. Must be 64 characters or fewer."

validateEmail(email) ==
  IF IsFalsy(email) THEN Literal(MsgEmailEmpty)
  ELSE IF ~formatRe(email.str) THEN Literal(MsgEmailFormat)
  ELSE IF /\ domainMatch(email.str).found
          /\ Len(Split(domainMatch(email.str).group, ".")) < 2
       THEN Literal(MsgEmailDomain)
  ELSE IF localPartTooLong(email.str) THEN Literal(MsgEmailLocal)
  ELSE EmptyString

-----------------------------------------------------------------------------
(* validateRequired, validateDateFormat *)

\* the value trimmed before the test: a string of blanks is absent
validateRequired_Trimmed(value) ==
  IF \/ value = Undefined
     \/ value = Null
     \/ \A i \in DOMAIN value.str : value.str[i] \in WhiteSpace
  THEN Bool(FALSE)
  ELSE Bool(TRUE)

validateRequired(value) ==
  IF value = Undefined \/ value = Null \/ value = EmptyString
  THEN Bool(FALSE)
  ELSE Bool(TRUE)

\* /^\d{4}-\d{2}-\d{2}$/.test(date); test converts its argument to a string
validateDateFormat(date) ==
  LET s == StringOf(date)
  IN  Bool(/\ Len(s) = 10
           /\ \A i \in {1, 2, 3, 4, 6, 7, 9, 10} : s[i] \in Digit
           /\ s[5] = "-"
           /\ s[8] = "-")

-----------------------------------------------------------------------------
(* formatDate *)

\* s.padStart(n, c)
padStart(s, n, c) == IF Len(s) >= n THEN s ELSE Repeat(c, n - Len(s)) \o s

\* isNaN(s) for a string with no sign, blank, point or exponent: NaN unless
\* every character is a digit (Number('') is 0)
isNaN(s) == \E i \in DOMAIN s : s[i] \notin Digit

DigitValue(c) == CHOOSE v \in 0..9 : <<"0","1","2","3","4","5","6","7","8","9">>[v + 1] = c

RECURSIVE DecimalValue(_)
DecimalValue(s) ==
  IF s = <<>> THEN 0
  ELSE 10 * DecimalValue(SubSeq(s, 1, Len(s) - 1)) + DigitValue(s[Len(s)])

\* the longest prefix of s made of the characters cs
PrefixOf(s, cs) ==
  IF \A i \in DOMAIN s : s[i] \in cs THEN s
  ELSE SubSeq(s, 1, Min({i \in DOMAIN s : s[i] \notin cs}) - 1)

RECURSIVE OctalValue(_)
OctalValue(s) ==
  IF s = <<>> THEN 0
  ELSE 8 * OctalValue(SubSeq(s, 1, Len(s) - 1)) + DigitValue(s[Len(s)])

\* parseInt reading a leading 0 as the octal prefix, as engines once did
parseInt_Octal(s) ==
  IF PrefixOf(s, Digit) = <<>> THEN [nan |-> TRUE, value |-> 0]
  ELSE IF s[1] = "0"
       THEN [nan |-> FALSE,
             value |-> OctalValue(PrefixOf(s, {"0", "1", "2", "3", "4", "5", "6", "7"}))]
  ELSE [nan |-> FALSE, value |-> DecimalValue(PrefixOf(s, Digit))]

\* parseInt(s) for a string with no leading blank, sign or 0x: the value of
\* the longest prefix of digits, NaN when that prefix is empty
parseInt(s) ==
  IF PrefixOf(s, Digit) = <<>> THEN [nan |-> TRUE, value |-> 0]
  ELSE [nan |-> FALSE, value |-> DecimalValue(PrefixOf(s, Digit))]

\* x < n and x > n are false when x is NaN
NumLess(x, n) == ~x.nan /\ x.value < n

NumGreater(x, n) == ~x.nan /\ x.value > n

MsgDateFormat == "Invalid date format. Use YYYY-MM-DD."

MsgDateComponents == "Invalid date components. Please use a valid date."

formatDate(date) ==
  IF ~validateDateFormat(date).bool THEN Literal(MsgDateFormat)
  ELSE LET parts == Split(date.str, "-")
           year  == padStart(parts[1], 4, "0")
           month == padStart(parts[2], 2, "0")
           day   == padStart(parts[3], 2, "0")
       IN  IF \/ isNaN(year) \/ isNaN(month) \/ isNaN(day)
              \/ NumLess(parseInt(month), 1) \/ NumGreater(parseInt(month), 12)
              \/ NumLess(parseInt(day), 1) \/ NumGreater(parseInt(day), 31)
           THEN Literal(MsgDateComponents)
           ELSE Str(year \o <<"-">> \o month \o <<"-">> \o day)

-----------------------------------------------------------------------------
(* formatPhoneNumber *)

\* the pattern anchored with ^ and $: only a string of exactly ten digits
phoneMatchAt_Whole(s, i) ==
  i = 1 /\ Len(s) = 10 /\ \A k \in DOMAIN s : s[k] \in Digit

\* \d{3}\d{3}\d{4} matches at position i
phoneMatchAt(s, i) == i + 9 <= Len(s) /\ \A k \in i..(i + 9) : s[k] \in Digit

RECURSIVE phoneSearch(_, _)
\* the regular expression's search: the first position from i on at which
\* it matches, 0 when there is none
phoneSearch(s, i) ==
  IF i > Len(s) THEN 0
  ELSE IF phoneMatchAt(s, i) THEN i
  ELSE phoneSearch(s, i + 1)

\* number.replace(/(\d{3})(\d{3})(\d{4})/, '($1) $2-$3'); replace on
\* undefined or null raises a TypeError
formatPhoneNumber(number) ==
  IF ~IsString(number) THEN TypeError
  ELSE LET s == number.str
           i == phoneSearch(s, 1)
       IN  IF i = 0 THEN Str(s)
           ELSE Str(SubSeq(s, 1, i - 1)
                    \o <<"(">> \o SubSeq(s, i, i + 2) \o <<")", " ">>
                    \o SubSeq(s, i + 3, i + 5) \o <<"-">>
                    \o SubSeq(s, i + 6, i + 9)
                    \o SubSeq(s, i + 10, Len(s)))

-----------------------------------------------------------------------------
(* capitalizeName *)

\* whether the character at position i is a word character; the positions
\* before the first and after the last character count as not
IsWordAt(s, i) == i \in DOMAIN s /\ s[i] \in WordChar

\* /(^|\s)\S/ in place of /\b\w/: words delimited by whitespace only
wordStartAt_AfterSpace(s, i) ==
  /\ i \in DOMAIN s
  /\ s[i] \notin WhiteSpace
  /\ (i = 1 \/ s[i - 1] \in WhiteSpace)

\* /\b\w/ matches at position i: \b between i - 1 and i, then \w at i
wordStartAt(s, i) == IsWordAt(s, i - 1) # IsWordAt(s, i) /\ IsWordAt(s, i)

RECURSIVE capitalizeFrom(_, _)
\* the global replace from position i on: each match is one character,
\* replaced by its upper case, and the search goes on after it
capitalizeFrom(s, i) ==
  IF i > Len(s) THEN <<>>
  ELSE IF wordStartAt(s, i) THEN <<toUpperCase(s[i])>> \o capitalizeFrom(s, i + 1)
  ELSE <<s[i]>> \o capitalizeFrom(s, i + 1)

\* name.replace(/\b\w/g, char => char.toUpperCase())
capitalizeName(name) ==
  IF ~IsString(name) THEN TypeError ELSE Str(capitalizeFrom(name.str, 1))

-----------------------------------------------------------------------------
(* addFormField, addField, removeField, displayErrorMessage and            *)
(* clearErrorMessage: the children of one parent node, the form            *)

Fields == {"f1", "f2"}

\* messages handed to displayErrorMessage; '' is what a validator returns
\* for a valid value
Messages == {"", "m1"}

ErrorClass == "error-message"

\* a child node: kind "field" and "span" are elements, "text" is a
\* text node; `of` is the name attribute of a field, and for a span the name
\* of the field it was created for
FieldNode(f) == [kind |-> "field", of |-> f, className |-> "", textContent |-> ""]

TextNode == [kind |-> "text", of |-> "", className |-> "", textContent |-> "t"]

\* an error-message span that is in the document before any call
OldErrorNode ==
  [kind |-> "span", of |-> "", className |-> ErrorClass, textContent |-> "old"]

\* document.createElement('span') with className 'error-message'
NewErrorNode(f) ==
  [kind |-> "span", of |-> f, className |-> ErrorClass, textContent |-> ""]

IsElement(n) == n.kind # "text"

\* the position of field f among the children
IndexOf(ch, f) == CHOOSE i \in DOMAIN ch : ch[i] = FieldNode(f)

\* field.parentNode is the form, not null
Attached(ch, f) == \E i \in DOMAIN ch : ch[i] = FieldNode(f)

\* ch without the node at position i
RemoveAt(ch, i) == SubSeq(ch, 1, i - 1) \o SubSeq(ch, i + 1, Len(ch))

\* form.appendChild(field): the field becomes the last child; a field that
\* is a child already is taken from its place first
appendChild(ch, f) ==
  IF Attached(ch, f) THEN Append(RemoveAt(ch, IndexOf(ch, f)), FieldNode(f))
  ELSE Append(ch, FieldNode(f))

\* the children after addFormField(form, field)
addFormField(ch, f) == appendChild(ch, f)

\* the children after addField(form, field)
addField(ch, f) == appendChild(ch, f)

\* form.querySelector(`[name="${fieldName}"]`): the position of the first
\* element with that name attribute, 0 for null
querySelector(ch, fieldName) ==
  LET hits == {i \in DOMAIN ch : ch[i].kind = "field" /\ ch[i].of = fieldName}
  IN  IF hits = {} THEN 0 ELSE Min(hits)

\* the children after removeField(form, fieldName)
removeField(ch, fieldName) ==
  LET field == querySelector(ch, fieldName)
  IN  IF field # 0 THEN RemoveAt(ch, field) ELSE ch

\* field.nextElementSibling: a position, 0 for null
nextElementSibling(ch, f) ==
  IF ~Attached(ch, f) THEN 0
  ELSE LET after == {j \in DOMAIN ch : j > IndexOf(ch, f) /\ IsElement(ch[j])}
       IN  IF after = {} THEN 0 ELSE Min(after)

\* field.nextSibling: a position, 0 for null
nextSibling(ch, f) ==
  IF ~Attached(ch, f) \/ IndexOf(ch, f) = Len(ch) THEN 0 ELSE IndexOf(ch, f) + 1

\* parentNode.appendChild(node) in place of insertBefore
insertBefore_Append(ch, node, ref) == Append(ch, node)

\* parentNode.insertBefore(node, ref): before position ref, at the end when
\* ref is null
insertBefore(ch, node, ref) ==
  IF ref = 0 THEN Append(ch, node)
  ELSE SubSeq(ch, 1, ref - 1) \o <<node>> \o SubSeq(ch, ref, Len(ch))

\* error && error.classList.contains('error-message')
IsErrorElement(ch, e) == e # 0 /\ ch[e].className = ErrorClass

\* field.parentNode.insertBefore raises a TypeError: the field has no error
\* element after it, and no parent
displayThrows(ch, f) ==
  ~IsErrorElement(ch, nextElementSibling(ch, f)) /\ ~Attached(ch, f)

\* the children after a displayErrorMessage(field, message) that returns
displayErrorMessage(ch, f, message) ==
  LET e == nextElementSibling(ch, f)
  IN  IF ~IsErrorElement(ch, e)
      THEN insertBefore(ch, [NewErrorNode(f) EXCEPT !.textContent = message],
                        nextSibling(ch, f))
      ELSE [ch EXCEPT ![e].textContent = message]

\* the children after clearErrorMessage(field)
clearErrorMessage(ch, f) ==
  LET e == nextElementSibling(ch, f)
  IN  IF IsErrorElement(ch, e) THEN [ch EXCEPT ![e].textContent = ""] ELSE ch

-----------------------------------------------------------------------------
(* The inputs the functions are called with *)

MaxGeneralLen == 3

MaxParts == 3

MaxEmailLen == 6

MaxFieldLen == 2

MaxAffixLen == 2

MaxRun == 12

MaxNameLen == 4

MaxChildren == 3

\* any validator: an absent value, null and short strings
GeneralInputs ==
  {Undefined, Null}
    \cup {Str(s) : s \in StringsUpTo({"a", "1", " ", LS, "@", "."}, MaxGeneralLen)}

\* passwords: up to MaxParts pieces, each one character or a longer run
PasswordPieces ==
  { <<"a">>, <<"A">>, <<"1">>, <<"!">>, <<"\n">>, <<LS>>,
    <<"v", "w", "x">>, <<"a", "b", "c">>, <<"1", "2", "3", "4">>,
    <<"x", "B", "2">>,
    <<"-", "+", "-", "+", "-", "+", "-", "+", "-">> }

PasswordInputs ==
  {Str(Flatten(ps)) : ps \in StringsUpTo(PasswordPieces, MaxParts)}

\* emails: an absent value, null, and a short string, alone or after a
\* local part near the limit
EmailInputs ==
  {Undefined, Null}
    \cup {Str(Repeat("x", n) \o s) :
            n \in {0, MaxLocalLength - 1, MaxLocalLength},
            s \in StringsUpTo({"a", "@", ".", " "}, MaxEmailLen)}

\* emails with other white space than the space
BlankEmailInputs ==
  {Str(s) :
     s \in UNION {StringsUpTo({"a", "@", ".", w}, MaxEmailLen) :
                    w \in {VT, NBSP, PS}}}

\* dates: year, separator, month, separator, day, rest
DateFrames ==
  { [year |-> <<"2", "0", "2", "4">>, sep |-> "-", rest |-> <<>>],
    [year |-> <<"0", "2", "4">>, sep |-> "-", rest |-> <<>>],
    [year |-> <<"2", "0", "2", "4", "5">>, sep |-> "-", rest |-> <<>>],
    [year |-> <<"2", "0", "a", "4">>, sep |-> "-", rest |-> <<>>],
    [year |-> <<"2", "0", "2", "4">>, sep |-> "/", rest |-> <<>>],
    [year |-> <<"2", "0", "2", "4">>, sep |-> "-", rest |-> <<"\n">>] }

DateFields == StringsUpTo({"0", "1", "2", "3", "9"}, MaxFieldLen)

DateInputs ==
  {Str(f.year \o <<f.sep>> \o m \o <<f.sep>> \o d \o f.rest) :
     f \in DateFrames, m \in DateFields, d \in DateFields}

\* the first n characters of 123456789012...
DigitRun(n) == [i \in 1..n |-> <<"0","1","2","3","4","5","6","7","8","9">>[(i % 10) + 1]]

\* phone numbers: a run of digits between two short affixes
PhoneInputs ==
  {Str(pre \o DigitRun(n) \o post) :
     pre \in StringsUpTo({"9", "-"}, MaxAffixLen),
     n \in 0..MaxRun,
     post \in StringsUpTo({"9", "-"}, MaxAffixLen)}

NameInputs ==
  {Str(s) :
     s \in StringsUpTo({"a", "B", " ", NBSP, "'", "-", "1", "_"}, MaxNameLen)}

\* the children of the parent before any call: each field at most once
Layouts ==
  {l \in StringsUpTo({FieldNode("f1"), FieldNode("f2"), TextNode,
                      OldErrorNode}, MaxChildren) :
     \A f \in Fields : Cardinality({i \in DOMAIN l : l[i] = FieldNode(f)}) <= 1}

\* the most children the parent is let grow to: a layout and one error
\* span for each field
MaxNodes == MaxChildren + Cardinality(Fields)

NeverShown == [f \in Fields |-> [called |-> FALSE, text |-> ""]]

-----------------------------------------------------------------------------
(* One call of a function on an input: fn names the function called, arg   *)
(* is its argument and ret what it returned.                               *)

InitCall(inputs) ==
  /\ fn = "none"
  /\ arg \in inputs
  /\ ret = Undefined
  /\ children = <<>>
  /\ shown = NeverShown
  /\ moved = {}

\* the call returns: the function's name and its value are recorded
Returned(name, value) ==
  /\ fn' = name
  /\ ret' = value
  /\ UNCHANGED <<arg, children, shown, moved>>

CallValidateEmail ==
  /\ fn = "none"
  /\ Returned("validateEmail", validateEmail(arg))

CallCheckPasswordStrength ==
  /\ fn = "none"
  /\ Returned("checkPasswordStrength", checkPasswordStrength(arg))

CallValidateRequired ==
  /\ fn = "none"
  /\ Returned("validateRequired", validateRequired(arg))

CallValidateDateFormat ==
  /\ fn = "none"
  /\ Returned("validateDateFormat", validateDateFormat(arg))

CallFormatDate ==
  /\ fn = "none"
  /\ Returned("formatDate", formatDate(arg))

\* formatDate applied to the date a first formatDate returned
CallFormatDateAgain ==
  /\ fn = "formatDate"
  /\ ret.lit = ""
  /\ fn' = "formatDate(formatDate)"
  /\ arg' = ret
  /\ ret' = formatDate(ret)
  /\ UNCHANGED <<children, shown, moved>>

CallFormatPhoneNumber ==
  /\ fn = "none"
  /\ Returned("formatPhoneNumber", formatPhoneNumber(arg))

CallCapitalizeName ==
  /\ fn = "none"
  /\ Returned("capitalizeName", capitalizeName(arg))

Init == InitCall(GeneralInputs)

Next ==
  \/ CallValidateEmail
  \/ CallCheckPasswordStrength
  \/ CallValidateRequired
  \/ CallValidateDateFormat

Spec == Init /\ [][Next]_vars

InitPassword == InitCall(PasswordInputs)

NextPassword == CallCheckPasswordStrength

SpecPassword == InitPassword /\ [][NextPassword]_vars

InitEmail == InitCall(EmailInputs) \/ InitCall(BlankEmailInputs)

NextEmail == CallValidateEmail

SpecEmail == InitEmail /\ [][NextEmail]_vars

InitDate == InitCall(DateInputs)

NextDate == CallFormatDate \/ CallFormatDateAgain

SpecDate == InitDate /\ [][NextDate]_vars

InitPhone == InitCall(PhoneInputs)

NextPhone == CallFormatPhoneNumber

SpecPhone == InitPhone /\ [][NextPhone]_vars

InitName == InitCall(NameInputs)

NextName == CallCapitalizeName

SpecName == InitName /\ [][NextName]_vars

-----------------------------------------------------------------------------------------------------------------------------------------------------
(* Calls of the form and error-message functions on the fields of one      *)
(* form.  ret is what the last call returned.  shown records, per field,  *)
(* whether a displayErrorMessage call on it returned and the text the last *)
(* call of either helper asks for;                                         *)
(* moved holds the fields that addFormField, addField or removeField was   *)
(* called on.                                                              *)

InitDom ==
  /\ fn = "none"
  /\ arg = Undefined
  /\ ret = Undefined
  /\ children \in Layouts
  /\ shown = NeverShown
  /\ moved = {}

AddFormField(f) ==
  /\ Len(addFormField(children, f)) <= MaxNodes
  /\ children' = addFormField(children, f)
  /\ moved' = moved \cup {f}
  /\ fn' = "addFormField"
  /\ ret' = Undefined
  /\ UNCHANGED <<arg, shown>>

AddField(f) ==
  /\ Len(addField(children, f)) <= MaxNodes
  /\ children' = addField(children, f)
  /\ moved' = moved \cup {f}
  /\ fn' = "addField"
  /\ ret' = Undefined
  /\ UNCHANGED <<arg, shown>>

RemoveField(f) ==
  /\ children' = removeField(children, f)
  /\ moved' = moved \cup {f}
  /\ fn' = "removeField"
  /\ ret' = Undefined
  /\ UNCHANGED <<arg, shown>>

DisplayErrorMessage(f, m) ==
  /\ fn' = "displayErrorMessage"
  /\ IF displayThrows(children, f)
     THEN /\ ret' = TypeError
          /\ UNCHANGED <<children, shown>>
     ELSE /\ Len(displayErrorMessage(children, f, m)) <= MaxNodes
          /\ children' = displayErrorMessage(children, f, m)
          /\ shown' = [shown EXCEPT ![f] = [called |-> TRUE, text |-> m]]
          /\ ret' = Undefined
  /\ UNCHANGED <<arg, moved>>

ClearErrorMessage(f) ==
  /\ children' = clearErrorMessage(children, f)
  /\ shown' = [shown EXCEPT ![f].text = ""]
  /\ fn' = "clearErrorMessage"
  /\ ret' = Undefined
  /\ UNCHANGED <<arg, moved>>

NextDom ==
  \/ \E f \in Fields : AddFormField(f)
  \/ \E f \in Fields : AddField(f)
  \/ \E f \in Fields : RemoveField(f)
  \/ \E f \in Fields, m \in Messages : DisplayErrorMessage(f, m)
  \/ \E f \in Fields : ClearErrorMessage(f)

SpecDom == InitDom /\ [][NextDom]_vars

-----------------------------------------------------------------------------
(* Claims about checkPasswordStrength, under SpecPassword and Spec *)

\* the seven rules, as stated: counts and lengths of the whole string
RuleSpecial(p) ==
  \E i, j \in DOMAIN p :
    i < j /\ p[i] \notin AlphaNumeric /\ p[j] \notin AlphaNumeric

RuleNoSequence(p) ==
  \A k \in DOMAIN sequentialPattern : ~Includes(p, sequentialPattern[k])

RuleNoRepeat(p) ==
  ~\E i \in DOMAIN p :
     i + 2 <= Len(p) /\ p[i] = p[i + 1] /\ p[i + 1] = p[i + 2]

RuleDigit(p) == \E i \in DOMAIN p : p[i] \in Digit

RuleLower(p) == \E i \in DOMAIN p : p[i] \in Lower

RuleUpper(p) == \E i \in DOMAIN p : p[i] \in Upper

RuleLength(p) == Len(p) \in 6..20

FirstViolatedRule(p) ==
  IF ~RuleSpecial(p) THEN Literal(MsgSpecial)
  ELSE IF ~RuleNoSequence(p) THEN Literal(MsgSequential)
  ELSE IF ~RuleNoRepeat(p) THEN Literal(MsgRepeating)
  ELSE IF ~RuleDigit(p) THEN Literal(MsgDigit)
  ELSE IF ~RuleLower(p) THEN Literal(MsgLower)
  ELSE IF ~RuleUpper(p) THEN Literal(MsgUpper)
  ELSE IF ~RuleLength(p) THEN Literal(MsgLength)
  ELSE EmptyString

\* C1: checkPasswordStrength(p) is '' exactly when p satisfies all seven
\* rules, and otherwise the message of the first rule, in the listed order,
\* that p violates.
C1_FirstViolatedRule ==
  fn = "checkPasswordStrength" /\ IsString(arg)
    => ret = FirstViolatedRule(arg.str)

\* C1 holds of every password without a line terminator: the regular
\* expressions of the last rule and of the repeat rule use '.', which
\* matches none.
C1_WithoutLineTerminators ==
  (/\ fn = "checkPasswordStrength"
   /\ IsString(arg)
   /\ (\A i \in DOMAIN arg.str : arg.str[i] \notin LineTerminator))
    => ret = FirstViolatedRule(arg.str)

\* the runs C2 lists: three consecutive letters abc..xyz, three consecutive
\* digits 012..890, four consecutive digits 1234..7890
DigitAt(i) == <<"0","1","2","3","4","5","6","7","8","9">>[(i % 10) + 1]

AscendingRuns ==
  {<<LowerSeq[i], LowerSeq[i + 1], LowerSeq[i + 2]>> : i \in 1..24}
    \cup {<<DigitAt(i), DigitAt(i + 1), DigitAt(i + 2)>> : i \in 0..8}
    \cup {<<DigitAt(i), DigitAt(i + 1), DigitAt(i + 2), DigitAt(i + 3)>> : i \in 1..7}

HasAscendingRun(p) == \E r \in AscendingRuns : Includes(p, r)

\* C2: a password with at least two special characters that contains one of
\* the ascending runs gets the sequential-characters message, and a password
\* that contains none of them never gets it.
C2_SequenceRule ==
  fn = "checkPasswordStrength" /\ IsString(arg)
    => /\ (RuleSpecial(arg.str) /\ HasAscendingRun(arg.str)
            => ret = Literal(MsgSequential))
       /\ (~HasAscendingRun(arg.str) => ret # Literal(MsgSequential))

\* C2 holds of every password that does not contain vwx, the one run the
\* table of the source leaves out.
C2_ExceptVwx ==
  (/\ fn = "checkPasswordStrength"
   /\ IsString(arg)
   /\ ~Includes(arg.str, <<"v", "w", "x">>))
    => /\ (RuleSpecial(arg.str) /\ HasAscendingRun(arg.str)
            => ret = Literal(MsgSequential))
       /\ (~HasAscendingRun(arg.str) => ret # Literal(MsgSequential))

\* C9: no validator raises an exception: on a string and on an absent
\* value, validateEmail and checkPasswordStrength return a string, and
\* validateRequired and validateDateFormat return a boolean.
C9_NoValidatorThrows ==
  /\ fn \in {"validateEmail", "checkPasswordStrength"} /\ arg # Null
       => ret.type = "string"
  /\ fn \in {"validateRequired", "validateDateFormat"} /\ arg # Null
       => ret.type = "boolean"

\* C9 holds of every call but checkPasswordStrength on an absent value.
C9_ExceptAbsentPassword ==
  (fn # "checkPasswordStrength" \/ IsString(arg)) => C9_NoValidatorThrows

-----------------------------------------------------------------------------
(* Claims about validateEmail, under SpecEmail *)

\* the substring before the first '@' (the whole string when there is none)
BeforeFirstAt(s) ==
  IF IndicesOf(s, "@") = {} THEN s ELSE SubSeq(s, 1, Min(IndicesOf(s, "@")) - 1)

\* the substring after the last '@' (the whole string when there is none)
AfterLastAt(s) ==
  IF IndicesOf(s, "@") = {} THEN s
  ELSE SubSeq(s, Max(IndicesOf(s, "@")) + 1, Len(s))

\* the number of dot-separated labels of s, empty ones counted
LabelCount(s) == Cardinality(IndicesOf(s, ".")) + 1

NoWhiteSpace(s) == \A i \in DOMAIN s : s[i] \notin WhiteSpace

\* the dot-separated labels of s
Labels(s) == {Split(s, ".")[k] : k \in 1..LabelCount(s)}

\* C3 as stated, read widely: a non-empty local part without whitespace of
\* at most 64 characters, an '@', and at least two labels after the last '@'
EmailAsStated(s) ==
  /\ IndicesOf(s, "@") # {}
  /\ BeforeFirstAt(s) # <<>>
  /\ NoWhiteSpace(BeforeFirstAt(s))
  /\ Len(BeforeFirstAt(s)) <= 64
  /\ LabelCount(AfterLastAt(s)) >= 2

\* C3 as stated, read narrowly: moreover no label is empty or holds
\* whitespace
EmailAsStatedStrictly(s) ==
  /\ EmailAsStated(s)
  /\ \A l \in Labels(AfterLastAt(s)) : l # <<>> /\ NoWhiteSpace(l)

\* C3 (as stated): validateEmail(s) is '' exactly when s has a
\* non-whitespace local part of at most 64 characters, an '@', and a domain
\* with at least two dot-separated labels.  Each direction is taken in the
\* reading that favours it: an accepted address meets the wide reading, and
\* an address that meets the narrow reading is accepted.
C3_Original ==
  fn = "validateEmail" /\ IsString(arg)
    => /\ (ret = EmptyString => EmailAsStated(arg.str))
       /\ (EmailAsStatedStrictly(arg.str) => ret = EmptyString)

\* local@domain: exactly one '@', no whitespace anywhere, a non-empty local
\* part, and a '.' in the domain that is neither its first nor its last
\* character
WellShaped(s) ==
  /\ Cardinality(IndicesOf(s, "@")) = 1
  /\ NoWhiteSpace(s)
  /\ BeforeFirstAt(s) # <<>>
  /\ \E d \in IndicesOf(AfterLastAt(s), ".") : 1 < d /\ d < Len(AfterLastAt(s))

\* C3 (amended): validateEmail(s) is '' exactly when s has exactly one '@',
\* no whitespace anywhere, a local part of 1 to 64 characters before the
\* '@', and after it a domain with a '.' that is neither its first nor its
\* last character.
C3_Amended ==
  fn = "validateEmail" /\ IsString(arg)
    => (ret = EmptyString
          <=> WellShaped(arg.str) /\ Len(BeforeFirstAt(arg.str)) <= 64)

\* an address whose local part has exactly 64 characters is accepted
C3_Witness ==
  /\ fn = "validateEmail"
  /\ ret = EmptyString
  /\ Len(BeforeFirstAt(arg.str)) = 64

\* the message of the first of the four checks that fails, '' when none does
FirstFailingCheck(email) ==
  IF email = Undefined \/ email = Str(<<>>) THEN Literal(MsgEmailEmpty)
  ELSE IF ~WellShaped(email.str) THEN Literal(MsgEmailFormat)
  ELSE IF LabelCount(AfterLastAt(email.str)) < 2 THEN Literal(MsgEmailDomain)
  ELSE IF Len(BeforeFirstAt(email.str)) > 64 THEN Literal(MsgEmailLocal)
  ELSE EmptyString

\* C4: validateEmail applies its four checks in order (empty or undefined;
\* not of the shape local@domain with a '.' in the domain; fewer than two
\* labels after the last '@'; more than 64 characters before the first '@')
\* and returns the message of the first that fails.
C4_FirstFailingCheck ==
  fn = "validateEmail" /\ arg # Null => ret = FirstFailingCheck(arg)

\* a well-shaped address is rejected by the fourth check alone
C4_Witness ==
  /\ fn = "validateEmail"
  /\ WellShaped(arg.str)
  /\ Len(BeforeFirstAt(arg.str)) = 65
  /\ ret = Literal(MsgEmailLocal)

-----------------------------------------------------------------------------
(* Claims about formatDate, under SpecDate *)

\* exactly 4 digits, hyphen, 2 digits, hyphen, 2 digits
DateShaped(d) ==
  /\ Len(d) = 10
  /\ \A i \in DOMAIN d : IF i \in {5, 8} THEN d[i] = "-" ELSE d[i] \in Digit

\* the number written by the two digits of d at positions i and i + 1
TwoDigits(d, i) == 10 * DigitValue(d[i]) + DigitValue(d[i + 1])

ExpectedDate(d) ==
  IF ~DateShaped(d) THEN Literal(MsgDateFormat)
  ELSE IF TwoDigits(d, 6) \notin 1..12 \/ TwoDigits(d, 9) \notin 1..31
       THEN Literal(MsgDateComponents)
  ELSE Str(d)

\* C5: formatDate(d) is the invalid-format message when d is not 4 digits,
\* hyphen, 2 digits, hyphen, 2 digits; the invalid-components message when
\* it has that shape and its month is outside 1-12 or its day outside 1-31;
\* and d itself otherwise, so that formatting a formatted valid date returns
\* it again.
C5_FormatDate ==
  /\ fn = "formatDate" => ret = ExpectedDate(arg.str)
  /\ fn = "formatDate(formatDate)" => ret = arg

\* a valid date with month 12 and day 31 was formatted twice
C5_Witness ==
  /\ fn = "formatDate(formatDate)"
  /\ ret = Str(<<"2", "0", "2", "4", "-", "1", "2", "-", "3", "1">>)

-----------------------------------------------------------------------------
(* Claims about formatPhoneNumber, under SpecPhone *)

AllDigits(s) == \A i \in DOMAIN s : s[i] \in Digit

\* (XXX) XXX-XXXX from ten digits
Formatted(t) ==
  <<"(", t[1], t[2], t[3], ")", " ", t[4], t[5], t[6], "-", t[7], t[8], t[9], t[10]>>

\* the positions at which ten consecutive digits start
TenDigitStarts(s) ==
  {i \in DOMAIN s : i + 9 <= Len(s) /\ AllDigits(SubSeq(s, i, i + 9))}

\* C6 (as stated): formatPhoneNumber returns (XXX) XXX-XXXX when its input
\* is exactly ten digits, and its input unchanged for every other input: a
\* digit string with a wrong digit count, a string in which separators
\* leave no ten digits in a row.
C6_Original ==
  fn = "formatPhoneNumber"
    => /\ (Len(arg.str) = 10 /\ AllDigits(arg.str)
            => ret = Str(Formatted(arg.str)))
       /\ (Len(arg.str) # 10 /\ AllDigits(arg.str) => ret = arg)
       /\ (TenDigitStarts(arg.str) = {} => ret = arg)

\* C6 (amended): formatPhoneNumber returns its input unchanged when the
\* input holds no ten consecutive digits; otherwise it rewrites the leftmost
\* ten consecutive digits as (XXX) XXX-XXXX and keeps every character
\* before and after them, further digits included.
C6_Amended ==
  fn = "formatPhoneNumber"
    => IF TenDigitStarts(arg.str) = {} THEN ret = arg
       ELSE LET i == Min(TenDigitStarts(arg.str))
            IN  /\ Len(ret.str) = Len(arg.str) + 4
                /\ SubSeq(ret.str, 1, i - 1) = SubSeq(arg.str, 1, i - 1)
                /\ SubSeq(ret.str, i, i + 13)
                     = Formatted(SubSeq(arg.str, i, i + 9))
                /\ SubSeq(ret.str, i + 14, Len(ret.str))
                     = SubSeq(arg.str, i + 10, Len(arg.str))

\* eleven digits were rewritten, the eleventh left after the formatted ten
C6_Witness ==
  /\ fn = "formatPhoneNumber"
  /\ arg = Str(DigitRun(11))
  /\ ret = Str(Formatted(DigitRun(10)) \o <<"1">>)

-----------------------------------------------------------------------------
(* Claims about capitalizeName, under SpecName *)

\* C7 (as stated): capitalizeName(n) is n with the first character of each
\* whitespace-delimited word in upper case and every other character, those
\* after an apostrophe or a hyphen included, unchanged.
C7_Original ==
  fn = "capitalizeName"
    => /\ Len(ret.str) = Len(arg.str)
       /\ \A i \in DOMAIN arg.str :
            ret.str[i] =
              IF /\ arg.str[i] \notin WhiteSpace
                 /\ (i = 1 \/ arg.str[i - 1] \in WhiteSpace)
              THEN toUpperCase(arg.str[i])
              ELSE arg.str[i]

\* C7 (amended): capitalizeName(n) is n with the first character of each
\* maximal run of letters, digits and underscores in upper case, so also a
\* letter that follows an apostrophe, a hyphen or other punctuation; every
\* other character is unchanged and the length is preserved.
C7_Amended ==
  fn = "capitalizeName"
    => /\ Len(ret.str) = Len(arg.str)
       /\ \A i \in DOMAIN arg.str :
            ret.str[i] =
              IF /\ arg.str[i] \in WordChar
                 /\ (i = 1 \/ arg.str[i - 1] \notin WordChar)
              THEN toUpperCase(arg.str[i])
              ELSE arg.str[i]

\* a letter after an apostrophe or a hyphen inside a word was capitalized,
\* and a letter inside a run was not
C7_Witness ==
  /\ fn = "capitalizeName"
  /\ \E i \in DOMAIN arg.str :
       /\ i > 2
       /\ arg.str[i - 2] = "a" /\ ret.str[i - 2] = "A"
       /\ arg.str[i - 1] \in {"'", "-"}
       /\ arg.str[i] = "a" /\ ret.str[i] = "A"
  /\ \E i \in DOMAIN arg.str : i > 1 /\ arg.str[i] = "a" /\ ret.str[i] = "a"

-----------------------------------------------------------------------------
(* Claims about validateRequired, under Spec *)

\* C8: validateRequired(v) is false exactly when v is absent or the empty
\* string, and true for every other value, a string of spaces included.
C8_Required ==
  fn = "validateRequired"
    => /\ ret.type = "boolean"
       /\ ret.bool = FALSE <=> (~IsString(arg) \/ Len(arg.str) = 0)

\* a string of spaces only was found to be present
C8_Witness ==
  /\ fn = "validateRequired"
  /\ arg = Str(<<" ", " ">>)
  /\ ret = Bool(TRUE)

-----------------------------------------------------------------------------
(* Claims about displayErrorMessage and clearErrorMessage, under SpecDom *)

\* the positions of the spans created for field f
SpansOf(ch, f) == {i \in DOMAIN ch : ch[i].kind = "span" /\ ch[i].of = f}

\* the nodes without their text
Skeleton(ch) == [i \in DOMAIN ch |-> [ch[i] EXCEPT !.textContent = ""]]

\* field f, attached to the parent, has at most one span created for it,
\* its next element sibling, and once displayErrorMessage was called on it
\* its next element sibling is an error element with the text asked for
OneErrorSpanOf(f) ==
  Attached(children, f) =>
    /\ Cardinality(SpansOf(children, f)) <= 1
    /\ \A i \in SpansOf(children, f) :
         /\ i = nextElementSibling(children, f)
         /\ children[i].textContent = shown[f].text
    /\ shown[f].called =>
         /\ IsErrorElement(children, nextElementSibling(children, f))
         /\ children[nextElementSibling(children, f)].textContent
              = shown[f].text

\* only displayErrorMessage and clearErrorMessage were called so far
OnlyMessageCalls == moved = {}

\* C10: after any calls of displayErrorMessage and clearErrorMessage, and
\* of no other function, on the fields attached to a parent, the parent
\* holds at most one error-message span created for a field, it is the
\* field's next element sibling, and its text is the message of the last
\* displayErrorMessage call, or '' when clearErrorMessage was called after
\* it; a displayErrorMessage call on a field that has its span inserts no
\* second one, and clearErrorMessage inserts and removes no node.
C10_OneErrorSpan ==
  /\ [](OnlyMessageCalls => \A f \in Fields : OneErrorSpanOf(f))
  /\ [][(\/ fn' = "clearErrorMessage"
          \/ /\ fn' = "displayErrorMessage"
             /\ OnlyMessageCalls
             /\ \/ shown' = shown
                \/ \E f \in Fields : shown'[f] # shown[f] /\ shown[f].called)
           => Skeleton(children') = Skeleton(children)]_vars

\* after calls of the two helpers only, both fields have a span of their
\* own; one shows a message, the other was cleared after a message was shown
C10_Witness ==
  /\ OnlyMessageCalls
  /\ fn = "clearErrorMessage"
  /\ SpansOf(children, "f1") # {} /\ SpansOf(children, "f2") # {}
  /\ shown["f1"] = [called |-> TRUE, text |-> ""]
  /\ shown["f2"] = [called |-> TRUE, text |-> "m1"]
  /\ \E i \in DOMAIN children : children[i] = TextNode

\* C10 holds of every field that was not handed to addFormField, addField
\* or removeField, whatever was done with the other fields.
C10_UnmovedFields ==
  \A f \in Fields \ moved : OneErrorSpanOf(f)

\* C10 does not extend to a field that was appended again: a field moved
\* away from its span gets a second one at the next displayErrorMessage.
C10_AfterAddField == \A f \in Fields : OneErrorSpanOf(f)

=============================================================================
